---- MODULE Spec2Model ----
(***************************************************************************)
(* SinglyLinkedList (src/Algorithms/singly_linked_list.py) and             *)
(* DoublyLinkedList (src/Algorithms/doubly_linked_list.py) as heaps of     *)
(* nodes with head, tail and size, driven by a harness that, like          *)
(* compare_access in src/Algorithms/comparison_demo.py, makes every call   *)
(* on one chain of each class and on a Python list.  The two chains share  *)
(* no state, so each chain alone goes through every sequence of calls.     *)
(***************************************************************************)
EXTENDS Integers, Sequences, FiniteSets, TLC

\* ------------------------------------------------------------------ bounds

\* The harness lets a chain grow to MaxSize elements.
MaxSize == 5

\* The stored values are 1..MaxVal.
MaxVal == 2

Values == 1..MaxVal

\* Python's None: the null link, and the result of a call that returns nothing.
None == 0

\* Object identities.  A chain of MaxSize nodes leaves one identity for the
\* Node(...) that a call constructs.
NodeIds == 1..(MaxSize + 1)

\* The indices the harness passes: negative, valid and past the end.
Indices == (0 - 1)..(MaxSize + 1)

\* The passes after which a while loop of the code is cut off.  No chain of
\* the model has that many nodes, so a loop that is cut off is a loop that
\* would not have reached its exit.
Fuel == MaxSize + 2

\* ------------------------------------------------------------- singly: heap

\* An identity no object has yet: the fields of a garbage object.
SBlank == [data |-> None, next |-> None]

\* The state of a fresh SinglyLinkedList().
SEmpty == [head |-> None, tail |-> None, size |-> 0,
           node |-> [n \in NodeIds |-> SBlank]]

\* The objects reachable from the chain's references, following next.
RECURSIVE SReach(_, _, _)
SReach(c, frontier, seen) ==
    IF frontier \subseteq seen
    THEN seen
    ELSE SReach(c,
                {c.node[n].next : n \in frontier} \ {None},
                seen \cup frontier)

SLive(c) == SReach(c, {c.head, c.tail} \ {None}, {})

\* The elements of a sequence.
Range(q) == {q[k] : k \in 1..Len(q)}

\* A finite set of numbers in increasing order.
RECURSIVE Sorted(_)
Sorted(S) ==
    IF S = {}
    THEN << >>
    ELSE LET m == CHOOSE x \in S : \A y \in S : x <= y
         IN  <<m>> \o Sorted(S \ {m})

\* The place of an object in a sequence of distinct objects.
Place(q, n) == CHOOSE k \in 1..Len(q) : q[k] = n

\* The nodes met from `current` along next, each once, in the order met.
RECURSIVE SChain(_, _, _)
SChain(c, current, met) ==
    IF current = None \/ current \in Range(met)
    THEN met
    ELSE SChain(c, c.node[current].next, Append(met, current))

\* Between two calls the program holds the chain and the nodes `held` by
\* its generators, and an identity is nothing but the object it names:
\* Python frees the objects no reference reaches, and the state is kept up
\* to a renaming of the live objects (those on the walk from head first,
\* then those on the walk from each held node, in the walks' order).
\* SOrder lists the live objects in their new order.
RECURSIVE SWalks(_, _, _)
SWalks(c, held, met) ==
    IF held = << >>
    THEN met
    ELSE SWalks(c, Tail(held), SChain(c, Head(held), met))

SOrder(c, held) ==
    LET walks == SWalks(c, <<c.head>> \o held, << >>)
        live == SReach(c, ({c.head, c.tail} \cup Range(held)) \ {None}, {})
    IN  walks \o Sorted(live \ Range(walks))

\* The new identity of the object n.
SName(c, held, n) == IF n = None THEN None ELSE Place(SOrder(c, held), n)

SCollect(c, held) ==
    LET order == SOrder(c, held)
        name(n) == IF n = None THEN None ELSE Place(order, n)
    IN  [head |-> name(c.head), tail |-> name(c.tail), size |-> c.size,
         node |-> [k \in NodeIds |->
                     IF k <= Len(order)
                     THEN [data |-> c.node[order[k]].data,
                           next |-> name(c.node[order[k]].next)]
                     ELSE SBlank]]

\* Node(data): a new object, distinct from every live one, next = None.
\* The identities of the freed objects are the blank ones.
SAlloc(c) == CHOOSE n \in NodeIds :
                 /\ c.node[n] = SBlank
                 /\ \A m \in NodeIds : c.node[m] = SBlank => n <= m

\* What a call gives back: the chain after it, whether it raised IndexError,
\* the value returned (None for a call that returns nothing), and how many
\* times it moved a reference along a next or a prev link.
Result(c, raised, ret, nexts, prevs) ==
    [c |-> c, raised |-> raised, ret |-> ret, nexts |-> nexts, prevs |-> prevs]

\* ------------------------------------------------------- singly: operations

SIsEmpty(c) == c.head = None

SLen(c) == c.size

\* SAppend that links the new tail back to head: a circular chain.
SAppend_Circular(c, data) ==
    LET new == SAlloc(c)
        n1 == [c.node EXCEPT ![new] = [data |-> data, next |-> None]]
    IN  IF SIsEmpty(c)
        THEN Result([head |-> new, tail |-> new, size |-> c.size + 1,
                     node |-> n1], FALSE, None, 0, 0)
        ELSE Result([head |-> c.head, tail |-> new, size |-> c.size + 1,
                     node |-> [n1 EXCEPT ![c.tail].next = new,
                                         ![new].next = c.head]],
                    FALSE, None, 0, 0)

SAppend(c, data) ==
    LET new == SAlloc(c)
        n1 == [c.node EXCEPT ![new] = [data |-> data, next |-> None]]
    IN  IF SIsEmpty(c)
        THEN Result([head |-> new, tail |-> new, size |-> c.size + 1,
                     node |-> n1], FALSE, None, 0, 0)
        ELSE Result([head |-> c.head, tail |-> new, size |-> c.size + 1,
                     node |-> [n1 EXCEPT ![c.tail].next = new]],
                    FALSE, None, 0, 0)

SPrepend(c, data) ==
    LET new == SAlloc(c)
        n1 == [c.node EXCEPT ![new] = [data |-> data, next |-> None]]
    IN  IF SIsEmpty(c)
        THEN Result([head |-> new, tail |-> new, size |-> c.size + 1,
                     node |-> n1], FALSE, None, 0, 0)
        ELSE Result([head |-> new, tail |-> c.tail, size |-> c.size + 1,
                     node |-> [n1 EXCEPT ![new].next = c.head]],
                    FALSE, None, 0, 0)

\* for _ in range(k): current = current.next
RECURSIVE SAdvance(_, _, _)
SAdvance(c, current, k) ==
    IF k <= 0 THEN current ELSE SAdvance(c, c.node[current].next, k - 1)

\* range(k) runs max(k, 0) times.
RangeLen(k) == IF k < 0 THEN 0 ELSE k

\* SInsertAt that walks range(index): one node too far.
SInsertAt_OffByOne(c, index, data) ==
    IF index < 0 \/ index > c.size
    THEN Result(c, TRUE, None, 0, 0)
    ELSE IF index = 0
    THEN SPrepend(c, data)
    ELSE IF index = c.size
    THEN SAppend(c, data)
    ELSE LET new == SAlloc(c)
             current == SAdvance(c, c.head, index)
             n1 == [c.node EXCEPT
                      ![new] = [data |-> data, next |-> c.node[current].next]]
         IN  Result([c EXCEPT !.node = [n1 EXCEPT ![current].next = new],
                              !.size = c.size + 1],
                    FALSE, None, RangeLen(index), 0)

SInsertAt(c, index, data) ==
    IF index < 0 \/ index > c.size
    THEN Result(c, TRUE, None, 0, 0)
    ELSE IF index = 0
    THEN SPrepend(c, data)
    ELSE IF index = c.size
    THEN SAppend(c, data)
    ELSE LET new == SAlloc(c)
             current == SAdvance(c, c.head, index - 1)
             n1 == [c.node EXCEPT
                      ![new] = [data |-> data, next |-> c.node[current].next]]
         IN  Result([c EXCEPT !.node = [n1 EXCEPT ![current].next = new],
                              !.size = c.size + 1],
                    FALSE, None, RangeLen(index - 1), 0)

\* SDeleteFirst that raises on an empty chain only after `self.size -= 1`.
SDeleteFirst_CountsFirst(c) ==
    IF SIsEmpty(c)
    THEN Result([c EXCEPT !.size = c.size - 1], TRUE, None, 0, 0)
    ELSE LET data == c.node[c.head].data
             c1 == [c EXCEPT !.head = c.node[c.head].next,
                             !.size = c.size - 1]
         IN  Result(IF SIsEmpty(c1) THEN [c1 EXCEPT !.tail = None] ELSE c1,
                    FALSE, data, 1, 0)

SDeleteFirst(c) ==
    IF SIsEmpty(c)
    THEN Result(c, TRUE, None, 0, 0)
    ELSE LET data == c.node[c.head].data
             c1 == [c EXCEPT !.head = c.node[c.head].next,
                             !.size = c.size - 1]
         IN  Result(IF SIsEmpty(c1) THEN [c1 EXCEPT !.tail = None] ELSE c1,
                    FALSE, data, 1, 0)

\* while current.next != self.tail: current = current.next
\* gives the node the loop stops at and the number of times it moved.
RECURSIVE SBeforeTail(_, _, _)
SBeforeTail(c, current, moved) ==
    IF c.node[current].next # c.tail /\ moved < Fuel
    THEN SBeforeTail(c, c.node[current].next, moved + 1)
    ELSE [at |-> current, moved |-> moved]

\* SDeleteLast without `self.size -= 1` where it removes the only node.
SDeleteLast_SizeKept(c) ==
    IF SIsEmpty(c)
    THEN Result(c, TRUE, None, 0, 0)
    ELSE IF c.head = c.tail
    THEN Result([c EXCEPT !.head = None, !.tail = None],
                FALSE, c.node[c.head].data, 0, 0)
    ELSE LET w == SBeforeTail(c, c.head, 0)
         IN  Result([c EXCEPT !.node = [c.node EXCEPT ![w.at].next = None],
                              !.tail = w.at,
                              !.size = c.size - 1],
                    FALSE, c.node[c.tail].data, w.moved, 0)

SDeleteLast(c) ==
    IF SIsEmpty(c)
    THEN Result(c, TRUE, None, 0, 0)
    ELSE IF c.head = c.tail
    THEN Result([c EXCEPT !.head = None, !.tail = None, !.size = c.size - 1],
                FALSE, c.node[c.head].data, 0, 0)
    ELSE LET w == SBeforeTail(c, c.head, 0)
         IN  Result([c EXCEPT !.node = [c.node EXCEPT ![w.at].next = None],
                              !.tail = w.at,
                              !.size = c.size - 1],
                    FALSE, c.node[c.tail].data, w.moved, 0)

\* SDeleteAt without `if index == self.size - 1: self.tail = current`.
SDeleteAt_TailKept(c, index) ==
    IF index < 0 \/ index >= c.size
    THEN Result(c, TRUE, None, 0, 0)
    ELSE IF index = 0
    THEN SDeleteFirst(c)
    ELSE LET current == SAdvance(c, c.head, index - 1)
             gone == c.node[current].next
             n1 == [c.node EXCEPT ![current].next = c.node[gone].next]
         IN  Result([c EXCEPT !.node = n1, !.size = c.size - 1],
                    FALSE, c.node[gone].data, RangeLen(index - 1), 0)

\* SDeleteAt that returns the value of the node before the removed one.
SDeleteAt_WrongValue(c, index) ==
    IF index < 0 \/ index >= c.size
    THEN Result(c, TRUE, None, 0, 0)
    ELSE IF index = 0
    THEN SDeleteFirst(c)
    ELSE LET current == SAdvance(c, c.head, index - 1)
             gone == c.node[current].next
             n1 == [c.node EXCEPT ![current].next = c.node[gone].next]
         IN  Result([c EXCEPT !.node = n1,
                              !.tail = IF index = c.size - 1
                                       THEN current ELSE c.tail,
                              !.size = c.size - 1],
                    FALSE, c.node[current].data, RangeLen(index - 1), 0)

SDeleteAt(c, index) ==
    IF index < 0 \/ index >= c.size
    THEN Result(c, TRUE, None, 0, 0)
    ELSE IF index = 0
    THEN SDeleteFirst(c)
    ELSE LET current == SAdvance(c, c.head, index - 1)
             gone == c.node[current].next
             n1 == [c.node EXCEPT ![current].next = c.node[gone].next]
         IN  Result([c EXCEPT !.node = n1,
                              !.tail = IF index = c.size - 1
                                       THEN current ELSE c.tail,
                              !.size = c.size - 1],
                    FALSE, c.node[gone].data, RangeLen(index - 1), 0)

\* while current: if current.data == data: return index; ...
RECURSIVE SSearchFrom(_, _, _, _)
SSearchFrom(c, current, index, data) ==
    IF current = None \/ index >= Fuel
    THEN Result(c, FALSE, 0 - 1, index, 0)
    ELSE IF c.node[current].data = data
    THEN Result(c, FALSE, index, index, 0)
    ELSE SSearchFrom(c, c.node[current].next, index + 1, data)

\* SSearch that counts the nodes from 1.
SSearch_FromOne(c, data) == SSearchFrom(c, c.head, 1, data)

SSearch(c, data) == SSearchFrom(c, c.head, 0, data)

\* SGet that makes the node it found the head.
SGet_MoveToFront(c, index) ==
    IF index < 0 \/ index >= c.size
    THEN Result(c, TRUE, None, 0, 0)
    ELSE Result([c EXCEPT !.head = SAdvance(c, c.head, index)], FALSE,
                c.node[SAdvance(c, c.head, index)].data,
                RangeLen(index), 0)

SGet(c, index) ==
    IF index < 0 \/ index >= c.size
    THEN Result(c, TRUE, None, 0, 0)
    ELSE Result(c, FALSE, c.node[SAdvance(c, c.head, index)].data,
                RangeLen(index), 0)

\* The loop of reverse: c is the chain so far, prev and current the locals.
RECURSIVE SReverseLoop(_, _, _, _)
SReverseLoop(c, prev, current, moved) ==
    IF current = None \/ moved >= Fuel
    THEN Result([c EXCEPT !.head = prev], FALSE, None, moved, 0)
    ELSE SReverseLoop([c EXCEPT !.node[current].next = prev],
                      current, c.node[current].next, moved + 1)

\* SReverse without `self.tail = self.head`.
SReverse_TailKept(c) ==
    IF SIsEmpty(c) \/ c.head = c.tail
    THEN Result(c, FALSE, None, 0, 0)
    ELSE SReverseLoop(c, None, c.head, 0)

SReverse(c) ==
    IF SIsEmpty(c) \/ c.head = c.tail
    THEN Result(c, FALSE, None, 0, 0)
    ELSE SReverseLoop([c EXCEPT !.tail = c.head], None, c.head, 0)

\* __iter__, run to its end: the values it yields.  The fuel ends the walk
\* of a chain that has a cycle after more values than there are nodes.
RECURSIVE SIterFrom(_, _, _)
SIterFrom(c, current, fuel) ==
    IF current = None \/ fuel = 0
    THEN << >>
    ELSE <<c.node[current].data>> \o SIterFrom(c, c.node[current].next, fuel - 1)

SIter(c) == SIterFrom(c, c.head, Fuel)

\* ------------------------------------------------------------- doubly: heap

DBlank == [data |-> None, next |-> None, prev |-> None]

\* The state of a fresh DoublyLinkedList().
DEmpty == [head |-> None, tail |-> None, size |-> 0,
           node |-> [n \in NodeIds |-> DBlank]]

\* The objects reachable from the chain's references, following next and prev.
RECURSIVE DReach(_, _, _)
DReach(c, frontier, seen) ==
    IF frontier \subseteq seen
    THEN seen
    ELSE DReach(c,
                ({c.node[n].next : n \in frontier}
                    \cup {c.node[n].prev : n \in frontier}) \ {None},
                seen \cup frontier)

DLive(c) == DReach(c, {c.head, c.tail} \ {None}, {})

\* The nodes met from `current` along next, each once, in the order met.
RECURSIVE DChain(_, _, _)
DChain(c, current, met) ==
    IF current = None \/ current \in Range(met)
    THEN met
    ELSE DChain(c, c.node[current].next, Append(met, current))

\* As SOrder, SName and SCollect, following next and prev.
RECURSIVE DWalks(_, _, _)
DWalks(c, held, met) ==
    IF held = << >>
    THEN met
    ELSE DWalks(c, Tail(held), DChain(c, Head(held), met))

DOrder(c, held) ==
    LET walks == DWalks(c, <<c.head>> \o held, << >>)
        live == DReach(c, ({c.head, c.tail} \cup Range(held)) \ {None}, {})
    IN  walks \o Sorted(live \ Range(walks))

DName(c, held, n) == IF n = None THEN None ELSE Place(DOrder(c, held), n)

DCollect(c, held) ==
    LET order == DOrder(c, held)
        name(n) == IF n = None THEN None ELSE Place(order, n)
    IN  [head |-> name(c.head), tail |-> name(c.tail), size |-> c.size,
         node |-> [k \in NodeIds |->
                     IF k <= Len(order)
                     THEN [data |-> c.node[order[k]].data,
                           next |-> name(c.node[order[k]].next),
                           prev |-> name(c.node[order[k]].prev)]
                     ELSE DBlank]]

\* DNode(data): a new object, distinct from every live one.
DAlloc(c) == CHOOSE n \in NodeIds :
                 /\ c.node[n] = DBlank
                 /\ \A m \in NodeIds : c.node[m] = DBlank => n <= m

\* ------------------------------------------------------- doubly: operations

DIsEmpty(c) == c.head = None

DLen(c) == c.size

DAppend(c, data) ==
    LET new == DAlloc(c)
        n1 == [c.node EXCEPT
                 ![new] = [data |-> data, next |-> None, prev |-> None]]
    IN  IF DIsEmpty(c)
        THEN Result([head |-> new, tail |-> new, size |-> c.size + 1,
                     node |-> n1], FALSE, None, 0, 0)
        ELSE Result([head |-> c.head, tail |-> new, size |-> c.size + 1,
                     node |-> [n1 EXCEPT ![new].prev = c.tail,
                                         ![c.tail].next = new]],
                    FALSE, None, 0, 0)

\* DPrepend without `self.head.prev = new_node`.
DPrepend_NoBackLink(c, data) ==
    LET new == DAlloc(c)
        n1 == [c.node EXCEPT
                 ![new] = [data |-> data, next |-> None, prev |-> None]]
    IN  IF DIsEmpty(c)
        THEN Result([head |-> new, tail |-> new, size |-> c.size + 1,
                     node |-> n1], FALSE, None, 0, 0)
        ELSE Result([head |-> new, tail |-> c.tail, size |-> c.size + 1,
                     node |-> [n1 EXCEPT ![new].next = c.head]],
                    FALSE, None, 0, 0)

DPrepend(c, data) ==
    LET new == DAlloc(c)
        n1 == [c.node EXCEPT
                 ![new] = [data |-> data, next |-> None, prev |-> None]]
    IN  IF DIsEmpty(c)
        THEN Result([head |-> new, tail |-> new, size |-> c.size + 1,
                     node |-> n1], FALSE, None, 0, 0)
        ELSE Result([head |-> new, tail |-> c.tail, size |-> c.size + 1,
                     node |-> [n1 EXCEPT ![new].next = c.head,
                                         ![c.head].prev = new]],
                    FALSE, None, 0, 0)

\* for _ in range(k): current = current.next
RECURSIVE DForward(_, _, _)
DForward(c, current, k) ==
    IF k <= 0 THEN current ELSE DForward(c, c.node[current].next, k - 1)

\* for _ in range(k): current = current.prev
RECURSIVE DBackward(_, _, _)
DBackward(c, current, k) ==
    IF k <= 0 THEN current ELSE DBackward(c, c.node[current].prev, k - 1)

\* The walk that insert_at, delete_at and get share: from head when
\* index < size // 2, from tail otherwise.
\* DLocate that also walks from head for the index size // 2.
DLocate_Inclusive(c, index) ==
    IF index <= c.size \div 2
    THEN [at |-> DForward(c, c.head, index),
          nexts |-> RangeLen(index), prevs |-> 0]
    ELSE [at |-> DBackward(c, c.tail, c.size - index - 1),
          nexts |-> 0, prevs |-> RangeLen(c.size - index - 1)]

DLocate(c, index) ==
    IF index < c.size \div 2
    THEN [at |-> DForward(c, c.head, index),
          nexts |-> RangeLen(index), prevs |-> 0]
    ELSE [at |-> DBackward(c, c.tail, c.size - index - 1),
          nexts |-> 0, prevs |-> RangeLen(c.size - index - 1)]

\* DInsertAt without `current.prev = new_node`.
DInsertAt_NoBackLink(c, index, data) ==
    IF index < 0 \/ index > c.size
    THEN Result(c, TRUE, None, 0, 0)
    ELSE IF index = 0
    THEN DPrepend(c, data)
    ELSE IF index = c.size
    THEN DAppend(c, data)
    ELSE LET new == DAlloc(c)
             w == DLocate(c, index)
             current == w.at
             before == c.node[current].prev
             n1 == [c.node EXCEPT
                      ![new] = [data |-> data, next |-> current,
                                prev |-> before]]
             n2 == [n1 EXCEPT ![before].next = new]
         IN  Result([c EXCEPT !.node = n2, !.size = c.size + 1],
                    FALSE, None, w.nexts, w.prevs)

\* DInsertAt whose interior case leaves size as it was.
DInsertAt_SizeKept(c, index, data) ==
    IF index < 0 \/ index > c.size
    THEN Result(c, TRUE, None, 0, 0)
    ELSE IF index = 0
    THEN DPrepend(c, data)
    ELSE IF index = c.size
    THEN DAppend(c, data)
    ELSE LET new == DAlloc(c)
             w == DLocate(c, index)
             current == w.at
             before == c.node[current].prev
             n1 == [c.node EXCEPT
                      ![new] = [data |-> data, next |-> current,
                                prev |-> before]]
             n2 == [n1 EXCEPT ![before].next = new]
             n3 == [n2 EXCEPT ![current].prev = new]
         IN  Result([c EXCEPT !.node = n3],
                    FALSE, None, w.nexts, w.prevs)

DInsertAt(c, index, data) ==
    IF index < 0 \/ index > c.size
    THEN Result(c, TRUE, None, 0, 0)
    ELSE IF index = 0
    THEN DPrepend(c, data)
    ELSE IF index = c.size
    THEN DAppend(c, data)
    ELSE LET new == DAlloc(c)
             w == DLocate(c, index)
             current == w.at
             before == c.node[current].prev
             n1 == [c.node EXCEPT
                      ![new] = [data |-> data, next |-> current,
                                prev |-> before]]
             n2 == [n1 EXCEPT ![before].next = new]
             n3 == [n2 EXCEPT ![current].prev = new]
         IN  Result([c EXCEPT !.node = n3, !.size = c.size + 1],
                    FALSE, None, w.nexts, w.prevs)

\* DDeleteFirst that tests `self.head.next is None` and, removing the only
\* node, clears head alone.
DDeleteFirst_TailKept(c) ==
    IF DIsEmpty(c)
    THEN Result(c, TRUE, None, 0, 0)
    ELSE LET data == c.node[c.head].data
         IN  IF c.head = c.tail
             THEN Result([c EXCEPT !.head = None, !.size = c.size - 1],
                         FALSE, data, 0, 0)
             ELSE LET h == c.node[c.head].next
                  IN  Result([c EXCEPT !.head = h,
                                       !.node[h].prev = None,
                                       !.size = c.size - 1],
                             FALSE, data, 1, 0)

DDeleteFirst(c) ==
    IF DIsEmpty(c)
    THEN Result(c, TRUE, None, 0, 0)
    ELSE LET data == c.node[c.head].data
         IN  IF c.head = c.tail
             THEN Result([c EXCEPT !.head = None, !.tail = None,
                                   !.size = c.size - 1],
                         FALSE, data, 0, 0)
             ELSE LET h == c.node[c.head].next
                  IN  Result([c EXCEPT !.head = h,
                                       !.node[h].prev = None,
                                       !.size = c.size - 1],
                             FALSE, data, 1, 0)

\* DDeleteLast without `self.tail.next = None`.
DDeleteLast_LinkKept(c) ==
    IF DIsEmpty(c)
    THEN Result(c, TRUE, None, 0, 0)
    ELSE LET data == c.node[c.tail].data
         IN  IF c.head = c.tail
             THEN Result([c EXCEPT !.head = None, !.tail = None,
                                   !.size = c.size - 1],
                         FALSE, data, 0, 0)
             ELSE LET t == c.node[c.tail].prev
                  IN  Result([c EXCEPT !.tail = t, !.size = c.size - 1],
                             FALSE, data, 0, 1)

DDeleteLast(c) ==
    IF DIsEmpty(c)
    THEN Result(c, TRUE, None, 0, 0)
    ELSE LET data == c.node[c.tail].data
         IN  IF c.head = c.tail
             THEN Result([c EXCEPT !.head = None, !.tail = None,
                                   !.size = c.size - 1],
                         FALSE, data, 0, 0)
             ELSE LET t == c.node[c.tail].prev
                  IN  Result([c EXCEPT !.tail = t,
                                       !.node[t].next = None,
                                       !.size = c.size - 1],
                             FALSE, data, 0, 1)

\* DDeleteAt that returns None for an index out of range instead of raising.
DDeleteAt_Silent(c, index) ==
    IF index < 0 \/ index >= c.size
    THEN Result(c, FALSE, None, 0, 0)
    ELSE IF index = 0
    THEN DDeleteFirst(c)
    ELSE IF index = c.size - 1
    THEN DDeleteLast(c)
    ELSE LET w == DLocate(c, index)
             current == w.at
             n1 == [c.node EXCEPT
                      ![c.node[current].prev].next = c.node[current].next]
             n2 == [n1 EXCEPT
                      ![n1[current].next].prev = n1[current].prev]
         IN  Result([c EXCEPT !.node = n2, !.size = c.size - 1],
                    FALSE, c.node[current].data, w.nexts, w.prevs)

DDeleteAt(c, index) ==
    IF index < 0 \/ index >= c.size
    THEN Result(c, TRUE, None, 0, 0)
    ELSE IF index = 0
    THEN DDeleteFirst(c)
    ELSE IF index = c.size - 1
    THEN DDeleteLast(c)
    ELSE LET w == DLocate(c, index)
             current == w.at
             n1 == [c.node EXCEPT
                      ![c.node[current].prev].next = c.node[current].next]
             n2 == [n1 EXCEPT
                      ![n1[current].next].prev = n1[current].prev]
         IN  Result([c EXCEPT !.node = n2, !.size = c.size - 1],
                    FALSE, c.node[current].data, w.nexts, w.prevs)

RECURSIVE DSearchFrom(_, _, _, _)
DSearchFrom(c, current, index, data) ==
    IF current = None \/ index >= Fuel
    THEN Result(c, FALSE, 0 - 1, index, 0)
    ELSE IF c.node[current].data = data
    THEN Result(c, FALSE, index, index, 0)
    ELSE DSearchFrom(c, c.node[current].next, index + 1, data)

\* DSearch that reports one-based positions.
DSearch_OneBased(c, data) == DSearchFrom(c, c.head, 1, data)

DSearch(c, data) == DSearchFrom(c, c.head, 0, data)

\* DGet whose walk from tail is made from head instead.
DGet_WrongEnd(c, index) ==
    IF index < 0 \/ index >= c.size
    THEN Result(c, TRUE, None, 0, 0)
    ELSE LET at == IF index < c.size \div 2
                   THEN DForward(c, c.head, index)
                   ELSE DForward(c, c.head, c.size - index - 1)
         IN  Result(c, FALSE, c.node[at].data, 0, 0)

DGet(c, index) ==
    IF index < 0 \/ index >= c.size
    THEN Result(c, TRUE, None, 0, 0)
    ELSE LET w == DLocate(c, index)
         IN  Result(c, FALSE, c.node[w.at].data, w.nexts, w.prevs)

\* The loop of reverse: swap the node's links, then move to its new prev.
RECURSIVE DReverseLoop(_, _, _)
DReverseLoop(c, current, moved) ==
    IF current = None \/ moved >= Fuel
    THEN Result(c, FALSE, None, 0, moved)
    ELSE LET c1 == [c EXCEPT !.node[current] =
                       [data |-> c.node[current].data,
                        next |-> c.node[current].prev,
                        prev |-> c.node[current].next]]
         IN  DReverseLoop(c1, c1.node[current].prev, moved + 1)

\* DReverse that leaves head and tail where they were.
DReverse_NoSwap(c) ==
    IF DIsEmpty(c) \/ c.head = c.tail
    THEN Result(c, FALSE, None, 0, 0)
    ELSE DReverseLoop(c, c.head, 0)

DReverse(c) ==
    IF DIsEmpty(c) \/ c.head = c.tail
    THEN Result(c, FALSE, None, 0, 0)
    ELSE DReverseLoop([c EXCEPT !.head = c.tail, !.tail = c.head], c.head, 0)

\* __iter__, run to its end.
RECURSIVE DIterFrom(_, _, _)
DIterFrom(c, current, fuel) ==
    IF current = None \/ fuel = 0
    THEN << >>
    ELSE <<c.node[current].data>> \o DIterFrom(c, c.node[current].next, fuel - 1)

DIter(c) == DIterFrom(c, c.head, Fuel)

\* reverse_iter(), run to its end.
RECURSIVE DReverseIterFrom(_, _, _)
DReverseIterFrom(c, current, fuel) ==
    IF current = None \/ fuel = 0
    THEN << >>
    ELSE <<c.node[current].data>>
            \o DReverseIterFrom(c, c.node[current].prev, fuel - 1)

DReverseIter(c) == DReverseIterFrom(c, c.tail, Fuel)

\* ------------------------------------------------------------- generators

\* The generator object of __iter__ or reverse_iter: not yet started
\* ("new"), suspended at its yield with the local variable current ("at"),
\* or finished ("done").
NewGen == [state |-> "new", current |-> None]

DoneGen == [state |-> "done", current |-> None]

Step(g, out, value, links) ==
    [g |-> g, out |-> out, value |-> value, links |-> links]

\* Resume with the test made after the first yield instead of before it:
\* the first pass reads the data of whatever head is.
Resume_TestAfter(g, first, follow, data) ==
    IF g.state = "done"
    THEN Step(g, "stop", None, 0)
    ELSE IF g.state = "new"
    THEN IF first = None
         THEN Step(DoneGen, "error", None, 0)
         ELSE Step([state |-> "at", current |-> first], "yield",
                   data[first], 0)
    ELSE IF g.current = None
    THEN Step(DoneGen, "error", None, 0)
    ELSE LET current == follow[g.current]
         IN  IF current = None
             THEN Step(DoneGen, "stop", None, 1)
             ELSE Step([state |-> "at", current |-> current], "yield",
                       data[current], 1)

\* One next() on a generator.  A new generator runs `current = <first>`,
\* a suspended one runs `current = current.<link>`, which raises on a
\* current that is none; then `while current:` either yields current.data
\* or ends the generator.  A finished generator stays finished.  links
\* counts the node links followed.
Resume(g, first, follow, data) ==
    IF g.state = "done"
    THEN Step(g, "stop", None, 0)
    ELSE IF g.state = "at" /\ g.current = None
    THEN Step(DoneGen, "error", None, 0)
    ELSE LET current == IF g.state = "new" THEN first
                        ELSE follow[g.current]
             links == IF g.state = "new" THEN 0 ELSE 1
         IN  IF current = None
             THEN Step(DoneGen, "stop", None, links)
             ELSE Step([state |-> "at", current |-> current], "yield",
                       data[current], links)

SIterNext(c, g) ==
    Resume(g, c.head, [n \in NodeIds |-> c.node[n].next],
           [n \in NodeIds |-> c.node[n].data])

DIterNext(c, g) ==
    Resume(g, c.head, [n \in NodeIds |-> c.node[n].next],
           [n \in NodeIds |-> c.node[n].data])

\* DReverseIterNext that starts at head.
DReverseIterNext_FromHead(c, g) ==
    Resume(g, c.head, [n \in NodeIds |-> c.node[n].prev],
           [n \in NodeIds |-> c.node[n].data])

DReverseIterNext(c, g) ==
    Resume(g, c.tail, [n \in NodeIds |-> c.node[n].prev],
           [n \in NodeIds |-> c.node[n].data])

\* The three kinds of generator.
GenKinds == {"s_iter", "d_iter", "d_reverse_iter"}

GenNext(kind, c, g) ==
    IF kind = "s_iter" THEN SIterNext(c, g)
    ELSE IF kind = "d_iter" THEN DIterNext(c, g)
    ELSE DReverseIterNext(c, g)

\* A for loop over the generator g: next() until it no longer yields.  The
\* result holds the values yielded, the links followed and how the last
\* next() ended ("cut" when the loop was cut off).
RECURSIVE Drain(_, _, _, _, _, _)
Drain(kind, c, g, values, links, fuel) ==
    LET r == GenNext(kind, c, g)
    IN  IF r.out # "yield"
        THEN [values |-> values, links |-> links + r.links, out |-> r.out]
        ELSE IF fuel = 0
        THEN [values |-> values, links |-> links + r.links, out |-> "cut"]
        ELSE Drain(kind, c, r.g, Append(values, r.value),
                   links + r.links, fuel - 1)

\* ------------------------------------------------------------------ strings

\* sep.join(elements)
RECURSIVE Join(_, _)
Join(sep, elements) ==
    IF elements = << >> THEN ""
    ELSE IF Len(elements) = 1 THEN elements[1]
    ELSE elements[1] \o sep \o Join(sep, Tail(elements))

RECURSIVE SStrFrom(_, _, _, _)
SStrFrom(c, current, elements, moved) ==
    IF current = None \/ moved >= Fuel
    THEN Result(c, FALSE, Join(" -> ", elements), moved, 0)
    ELSE SStrFrom(c, c.node[current].next,
                  Append(elements, ToString(c.node[current].data)),
                  moved + 1)

SStr(c) ==
    IF SIsEmpty(c)
    THEN Result(c, FALSE, "[]", 0, 0)
    ELSE SStrFrom(c, c.head, << >>, 0)

RECURSIVE DStrFrom(_, _, _, _)
DStrFrom(c, current, elements, moved) ==
    IF current = None \/ moved >= Fuel
    THEN Result(c, FALSE, Join(" <-> ", elements), moved, 0)
    ELSE DStrFrom(c, c.node[current].next,
                  Append(elements, ToString(c.node[current].data)),
                  moved + 1)

DStr(c) ==
    IF DIsEmpty(c)
    THEN Result(c, FALSE, "[]", 0, 0)
    ELSE DStrFrom(c, c.head, << >>, 0)

RECURSIVE DStrReverseFrom(_, _, _, _)
DStrReverseFrom(c, current, elements, moved) ==
    IF current = None \/ moved >= Fuel
    THEN Result(c, FALSE, Join(" <-> ", elements), 0, moved)
    ELSE DStrReverseFrom(c, c.node[current].prev,
                         Append(elements, ToString(c.node[current].data)),
                         moved + 1)

DStrReverse(c) ==
    IF DIsEmpty(c)
    THEN Result(c, FALSE, "[]", 0, 0)
    ELSE DStrReverseFrom(c, c.tail, << >>, 0)

\* -------------------------------------------------------- reference array

\* The Python list the chains are compared with: arr.insert(i, v), arr.pop(i)
\* and arr.reverse() for an index the chain's call accepts.
SeqInsert(a, i, v) == SubSeq(a, 1, i) \o <<v>> \o SubSeq(a, i + 1, Len(a))

SeqRemove(a, i) == SubSeq(a, 1, i) \o SubSeq(a, i + 2, Len(a))

SeqReverse(a) == [k \in 1..Len(a) |-> a[Len(a) + 1 - k]]

\* ------------------------------------------------------------------- state

VARIABLES
    sll,      \* the SinglyLinkedList: head, tail, size and its nodes
    dll,      \* the DoublyLinkedList: head, tail, size and its nodes
    ref,      \* the reference array
    last,     \* the last call: its name and what each callee gave
    sNet,     \* successful insertions into sll less successful removals
    dNet,     \* successful insertions into dll less successful removals
    rev,      \* the run of consecutive reverse() calls just made (1 or 2
              \* calls long) and the chains as they were before it
    gens      \* the generators the harness keeps, by name

vars == <<sll, dll, ref, last, sNet, dNet, rev, gens>>

\* What the caller sees of a call: an IndexError or the value returned.
Outcome(r) == [raised |-> r.raised, ret |-> r.ret]

NoOutcome == [raised |-> FALSE, ret |-> None]

NoRun == [run |-> 0, s |-> SEmpty, d |-> DEmpty]

\* The names under which the harness keeps generators.
GenOrder == <<"a", "b">>

GenNames == Range(GenOrder)

\* What the harness keeps under a name: no generator (kind "none"), or a
\* generator of some kind with its state g.  The rest is bookkeeping: clean
\* says that no call has changed the chain since the generator was made,
\* seen holds the values a clean generator has yielded, out how its last
\* next() ended, off that this next() resumed on a node which the chain no
\* longer held.
NoGen == [kind |-> "none", g |-> NewGen, clean |-> TRUE, seen |-> << >>,
          out |-> "none", off |-> FALSE]

Init ==
    /\ gens = [x \in GenNames |-> NoGen]
    /\ sll = SEmpty
    /\ dll = DEmpty
    /\ ref = << >>
    /\ last = [op |-> "init", s |-> NoOutcome, d |-> NoOutcome, r |-> NoOutcome]
    /\ sNet = 0
    /\ dNet = 0
    /\ rev = NoRun

Bit(b) == IF b THEN 1 ELSE 0

\* One call made on both chains and on the reference array: rs and rd are
\* what the two methods give, a1 and ra the array after the call and what the
\* array's operation gave.
\* The nodes the generators gs hold in the singly chain, and in the doubly.
SHeld(gs) ==
    [k \in 1..Len(GenOrder) |->
        IF gs[GenOrder[k]].kind = "s_iter"
        THEN gs[GenOrder[k]].g.current ELSE None]

DHeld(gs) ==
    [k \in 1..Len(GenOrder) |->
        IF gs[GenOrder[k]].kind \in {"d_iter", "d_reverse_iter"}
        THEN gs[GenOrder[k]].g.current ELSE None]

\* The generators gs after the chains became s and d: each keeps its node,
\* under the node's new identity.
Renamed(gs, s, d) ==
    [x \in GenNames |->
        IF gs[x].kind = "none" THEN gs[x]
        ELSE IF gs[x].kind = "s_iter"
        THEN [gs[x] EXCEPT !.g.current = SName(s, SHeld(gs), @)]
        ELSE [gs[x] EXCEPT !.g.current = DName(d, DHeld(gs), @)]]

\* A generator after a call that changed its chain is no longer clean.
Touched(gen, rs, rd) ==
    IF gen.kind = "none" THEN gen
    ELSE IF (gen.kind = "s_iter" /\ rs.c = sll) \/
            (gen.kind # "s_iter" /\ rd.c = dll)
    THEN gen
    ELSE [gen EXCEPT !.clean = FALSE, !.seen = << >>]

\* The chains and the generators after a call gave rs and rd.
Apply(rs, rd) ==
    /\ sll' = SCollect(rs.c, SHeld(gens))
    /\ dll' = DCollect(rd.c, DHeld(gens))
    /\ gens' = Renamed([x \in GenNames |-> Touched(gens[x], rs, rd)],
                       rs.c, rd.c)

Call(op, rs, rd, a1, ra, inserts, removes) ==
    /\ Apply(rs, rd)
    /\ ref' = a1
    /\ last' = [op |-> op, s |-> Outcome(rs), d |-> Outcome(rd), r |-> ra]
    /\ sNet' = sNet + Bit(inserts /\ ~rs.raised) - Bit(removes /\ ~rs.raised)
    /\ dNet' = dNet + Bit(inserts /\ ~rd.raised) - Bit(removes /\ ~rd.raised)
    /\ rev' = IF op # "reverse" THEN NoRun
              ELSE IF rev.run = 1 THEN [rev EXCEPT !.run = 2]
              ELSE [run |-> 1, s |-> sll, d |-> dll]

\* A call that inserts is made while the chain holds fewer than MaxSize
\* elements; a call that raises inserts nothing.
MayInsert(rs, rd) ==
    /\ rs.raised \/ sll.size < MaxSize
    /\ rd.raised \/ dll.size < MaxSize

ArrayOk(ret) == [raised |-> FALSE, ret |-> ret]

ArrayError == [raised |-> TRUE, ret |-> None]

CallAppend(v) ==
    LET rs == SAppend(sll, v)
        rd == DAppend(dll, v)
    IN  /\ MayInsert(rs, rd)
        /\ Call("append", rs, rd, Append(ref, v), ArrayOk(None),
                TRUE, FALSE)

CallPrepend(v) ==
    LET rs == SPrepend(sll, v)
        rd == DPrepend(dll, v)
    IN  /\ MayInsert(rs, rd)
        /\ Call("prepend", rs, rd, <<v>> \o ref, ArrayOk(None),
                TRUE, FALSE)

CallInsertAt(i, v) ==
    LET rs == SInsertAt(sll, i, v)
        rd == DInsertAt(dll, i, v)
        ok == 0 <= i /\ i <= Len(ref)
    IN  /\ MayInsert(rs, rd)
        /\ Call("insert_at", rs, rd,
                IF ok THEN SeqInsert(ref, i, v) ELSE ref,
                IF ok THEN ArrayOk(None) ELSE ArrayError,
                TRUE, FALSE)

CallDeleteFirst ==
    LET ok == Len(ref) > 0
    IN  Call("delete_first", SDeleteFirst(sll), DDeleteFirst(dll),
             IF ok THEN Tail(ref) ELSE ref,
             IF ok THEN ArrayOk(Head(ref)) ELSE ArrayError,
             FALSE, TRUE)

CallDeleteLast ==
    LET ok == Len(ref) > 0
    IN  Call("delete_last", SDeleteLast(sll), DDeleteLast(dll),
             IF ok THEN SubSeq(ref, 1, Len(ref) - 1) ELSE ref,
             IF ok THEN ArrayOk(ref[Len(ref)]) ELSE ArrayError,
             FALSE, TRUE)

CallDeleteAt(i) ==
    LET ok == 0 <= i /\ i < Len(ref)
    IN  Call("delete_at", SDeleteAt(sll, i), DDeleteAt(dll, i),
             IF ok THEN SeqRemove(ref, i) ELSE ref,
             IF ok THEN ArrayOk(ref[i + 1]) ELSE ArrayError,
             FALSE, TRUE)

CallReverse ==
    Call("reverse", SReverse(sll), DReverse(dll),
         SeqReverse(ref), ArrayOk(None), FALSE, FALSE)

CallGet(i) ==
    LET ok == 0 <= i /\ i < Len(ref)
    IN  Call("get", SGet(sll, i), DGet(dll, i), ref,
             IF ok THEN ArrayOk(ref[i + 1]) ELSE ArrayError,
             FALSE, FALSE)

CallSearch(v) ==
    Call("search", SSearch(sll, v), DSearch(dll, v), ref,
         ArrayOk(None), FALSE, FALSE)

Next ==
    \/ \E v \in Values : CallAppend(v)
    \/ \E v \in Values : CallPrepend(v)
    \/ \E i \in Indices, v \in Values : CallInsertAt(i, v)
    \/ CallDeleteFirst
    \/ CallDeleteLast
    \/ \E i \in Indices : CallDeleteAt(i)
    \/ CallReverse
    \/ \E i \in Indices : CallGet(i)
    \/ \E v \in Values : CallSearch(v)

Spec == Init /\ [][Next]_vars

\* ---------------------------------------------------- state: every accessor

\* The calls that only read, beside get and search: is_empty, len, str,
\* str_reverse and a whole iteration (a for loop over the chain, forward or
\* backward).  str_reverse and reverse_iter exist on the doubly class only.
Untried(c) == Result(c, FALSE, None, 0, 0)

CallIsEmpty ==
    Call("is_empty", Result(sll, FALSE, SIsEmpty(sll), 0, 0),
         Result(dll, FALSE, DIsEmpty(dll), 0, 0), ref,
         ArrayOk(Len(ref) = 0), FALSE, FALSE)

CallLen ==
    Call("len", Result(sll, FALSE, SLen(sll), 0, 0),
         Result(dll, FALSE, DLen(dll), 0, 0), ref,
         ArrayOk(Len(ref)), FALSE, FALSE)

CallStr ==
    Call("str", SStr(sll), DStr(dll), ref, ArrayOk(None), FALSE, FALSE)

CallStrReverse ==
    Call("str_reverse", Untried(sll), DStrReverse(dll), ref,
         ArrayOk(None), FALSE, FALSE)

\* for item in ll / for item in dll: the generator is made, drained and
\* dropped; the loop gives the values it met.
Iterated(kind, c) ==
    LET run == Drain(kind, c, NewGen, << >>, 0, Fuel)
    IN  Result(c, run.out = "error", run.values,
               IF kind = "d_reverse_iter" THEN 0 ELSE run.links,
               IF kind = "d_reverse_iter" THEN run.links ELSE 0)

CallIter ==
    Call("iter", Iterated("s_iter", sll), Iterated("d_iter", dll), ref,
         ArrayOk(ref), FALSE, FALSE)

CallReverseIter ==
    Call("reverse_iter", Untried(sll), Iterated("d_reverse_iter", dll), ref,
         ArrayOk(SeqReverse(ref)), FALSE, FALSE)

NextRead ==
    \/ \E v \in Values : CallAppend(v)
    \/ \E v \in Values : CallPrepend(v)
    \/ \E i \in Indices, v \in Values : CallInsertAt(i, v)
    \/ CallDeleteFirst
    \/ CallDeleteLast
    \/ \E i \in Indices : CallDeleteAt(i)
    \/ CallReverse
    \/ \E i \in Indices : CallGet(i)
    \/ \E v \in Values : CallSearch(v)
    \/ CallIsEmpty
    \/ CallLen
    \/ CallStr
    \/ CallStrReverse
    \/ CallIter
    \/ CallReverseIter

SpecRead == Init /\ [][NextRead]_vars

\* ------------------------------------------------------- state: generators

\* The generators are explored on chains of up to IterSize elements.
IterSize == MaxSize - 3

\* The values inserted while generators are kept: two that differ.
IterValues == {1, MaxVal}

\* The objects alive in each heap: those of the chain and those that only
\* a generator still reaches.
SAlive == {n \in NodeIds : sll.node[n] # SBlank}

DAlive == {n \in NodeIds : dll.node[n] # DBlank}

\* An insertion is made while each heap holds fewer than IterSize objects:
\* no chain grows past IterSize elements.
MayGrow ==
    /\ Cardinality(SAlive) < IterSize
    /\ Cardinality(DAlive) < IterSize

\* The harness now keeps the generators gs: the chains are as they were,
\* the objects no longer held are freed.
Settle(gs) ==
    /\ sll' = SCollect(sll, SHeld(gs))
    /\ dll' = DCollect(dll, DHeld(gs))
    /\ gens' = Renamed(gs, sll, dll)
    /\ UNCHANGED <<ref, last, sNet, dNet, rev>>

\* A call made while generators are kept: the same call on both chains.
\* The reference array and the bookkeeping of Call stay out of it.
Mutate(rs, rd) ==
    /\ Apply(rs, rd)
    /\ UNCHANGED <<ref, last, sNet, dNet, rev>>

\* x = iter(ll), x = iter(dll) or x = dll.reverse_iter(): a new generator,
\* in place of whatever x named.
GenCreate(x, kind) ==
    Settle([gens EXCEPT ![x] = [NoGen EXCEPT !.kind = kind]])

\* next(x)
GenStep(x) ==
    /\ gens[x].kind # "none"
    /\ LET gen == gens[x]
           r == GenNext(gen.kind, IF gen.kind = "s_iter" THEN sll ELSE dll,
                        gen.g)
           on == IF gen.kind = "s_iter"
                 THEN Range(SChain(sll, sll.head, << >>))
                 ELSE Range(DChain(dll, dll.head, << >>))
       IN  Settle([gens EXCEPT ![x] =
                     [gen EXCEPT !.g = r.g,
                                 !.out = r.out,
                                 !.off = gen.g.state = "at"
                                            /\ gen.g.current \notin on,
                                 !.seen = IF gen.clean /\ r.out = "yield"
                                          THEN Append(@, r.value)
                                          ELSE @]])

NextIter ==
    \/ \E v \in IterValues :
          MayGrow /\ Mutate(SAppend(sll, v), DAppend(dll, v))
    \/ \E v \in IterValues :
          MayGrow /\ Mutate(SPrepend(sll, v), DPrepend(dll, v))
    \/ \E i \in Indices, v \in IterValues :
          MayGrow /\ Mutate(SInsertAt(sll, i, v), DInsertAt(dll, i, v))
    \/ Mutate(SDeleteFirst(sll), DDeleteFirst(dll))
    \/ Mutate(SDeleteLast(sll), DDeleteLast(dll))
    \/ \E i \in Indices : Mutate(SDeleteAt(sll, i), DDeleteAt(dll, i))
    \/ Mutate(SReverse(sll), DReverse(dll))
    \/ \E x \in GenNames, kind \in GenKinds : GenCreate(x, kind)
    \/ \E x \in GenNames : GenStep(x)

SpecIter == Init /\ [][NextIter]_vars

\* ------------------------------------------------------------ observations

\* The nodes of sll in the order the walk from head meets them.  The walk
\* stops at None or at a node it has met: in a chain with a cycle the last
\* node met has a next that is not None.
SNodes == SChain(sll, sll.head, << >>)

\* The nodes of dll in the order the walk from head meets them.
DNodes == DChain(dll, dll.head, << >>)

\* The nodes met from `current` along prev, each once, in the order met.
RECURSIVE DChainBack(_, _, _)
DChainBack(c, current, met) ==
    IF current = None \/ current \in Range(met)
    THEN met
    ELSE DChainBack(c, c.node[current].prev, Append(met, current))

DNodesBack == DChainBack(dll, dll.tail, << >>)

\* All but the last element of a sequence.
Front(a) == SubSeq(a, 1, Len(a) - 1)

Removals == {"delete_first", "delete_last", "delete_at"}

\* ---------------------------------------------------------------------- C1

\* C1: in every reachable state of the SinglyLinkedList, the walk from head
\* along next visits exactly `size` pairwise distinct nodes, the last node it
\* visits is tail and tail.next is None; when size is 0, head and tail are
\* both None.
C1_SinglyShape ==
    /\ Len(SNodes) = sll.size
    /\ sll.size = 0 => sll.head = None /\ sll.tail = None
    /\ sll.size > 0 =>
          /\ SNodes[Len(SNodes)] = sll.tail
          /\ sll.node[sll.tail].next = None

\* A chain of three nodes left by a successful delete_at.
C1_Witness ==
    /\ last.op = "delete_at"
    /\ ~last.s.raised
    /\ sll.size >= 3

\* ---------------------------------------------------------------------- C2

\* C2: in every reachable state of the DoublyLinkedList, the walk from head
\* along next visits exactly `size` distinct nodes and ends at tail with
\* tail.next None, the walk from tail along prev visits the same nodes in
\* reverse order and ends at head with head.prev None, and n.next.prev is n
\* for every node n with a successor, n.prev.next is n for every node n with
\* a predecessor.
C2_DoublyShape ==
    /\ Len(DNodes) = dll.size
    /\ dll.size = 0 => dll.head = None /\ dll.tail = None
    /\ dll.size > 0 =>
          /\ DNodes[Len(DNodes)] = dll.tail
          /\ dll.node[dll.tail].next = None
          /\ DNodesBack[Len(DNodesBack)] = dll.head
          /\ dll.node[dll.head].prev = None
    /\ DNodesBack = SeqReverse(DNodes)
    /\ \A n \in Range(DNodes) :
          /\ dll.node[n].next # None => dll.node[dll.node[n].next].prev = n
          /\ dll.node[n].prev # None => dll.node[dll.node[n].prev].next = n

\* A chain of four nodes or more left by a successful insert_at.
C2_Witness ==
    /\ last.op = "insert_at"
    /\ ~last.d.raised
    /\ dll.size >= 4

\* ---------------------------------------------------------------------- C3

\* C3: for both chains, len(chain) is the number of successful insertions
\* less the number of successful removals, is_empty() (a test of head) is
\* len(chain) == 0 (a read of size), and reverse, get, search and every call
\* that raises leave len(chain) as it was.
C3_SizeConsistency ==
    /\ SLen(sll) = sNet
    /\ DLen(dll) = dNet
    /\ SIsEmpty(sll) <=> SLen(sll) = 0
    /\ DIsEmpty(dll) <=> DLen(dll) = 0
    /\ SLen(SReverse(sll).c) = SLen(sll)
    /\ DLen(DReverse(dll).c) = DLen(dll)
    /\ \A v \in Values :
          /\ SLen(SSearch(sll, v).c) = SLen(sll)
          /\ DLen(DSearch(dll, v).c) = DLen(dll)
    /\ \A i \in Indices :
          /\ SLen(SGet(sll, i).c) = SLen(sll)
          /\ DLen(DGet(dll, i).c) = DLen(dll)
          /\ SDeleteAt(sll, i).raised => SLen(SDeleteAt(sll, i).c) = SLen(sll)
          /\ DDeleteAt(dll, i).raised => DLen(DDeleteAt(dll, i).c) = DLen(dll)
          /\ \A v \in Values :
                /\ SInsertAt(sll, i, v).raised =>
                      SLen(SInsertAt(sll, i, v).c) = SLen(sll)
                /\ DInsertAt(dll, i, v).raised =>
                      DLen(DInsertAt(dll, i, v).c) = DLen(dll)
    /\ SDeleteFirst(sll).raised => SLen(SDeleteFirst(sll).c) = SLen(sll)
    /\ SDeleteLast(sll).raised => SLen(SDeleteLast(sll).c) = SLen(sll)
    /\ DDeleteFirst(dll).raised => DLen(DDeleteFirst(dll).c) = DLen(dll)
    /\ DDeleteLast(dll).raised => DLen(DDeleteLast(dll).c) = DLen(dll)

\* Both chains emptied again by a successful removal.
C3_Witness ==
    /\ last.op \in Removals
    /\ ~last.s.raised
    /\ ~last.d.raised
    /\ sNet = 0
    /\ dNet = 0

\* ---------------------------------------------------------------------- C4

\* C4: after every call, the forward iteration of each chain is the
\* reference array on which the equivalent array operation was made, and a
\* removal that the array accepts returns from each chain the value the
\* array's removal returns.
C4_OrderPreservation ==
    /\ SIter(sll) = ref
    /\ DIter(dll) = ref
    /\ last.op \in Removals /\ ~last.r.raised =>
          /\ last.s = last.r
          /\ last.d = last.r

\* A removal that left at least two values which are not all the same.
C4_Witness ==
    /\ last.op \in Removals
    /\ ~last.r.raised
    /\ Len(ref) >= 2
    /\ ref[1] # ref[2]
    /\ SIter(sll) = ref

\* ---------------------------------------------------------------------- C5

\* C5: in every reachable state of the DoublyLinkedList, reverse_iter()
\* yields the reversal of what forward iteration yields.
C5_RoundTrip == DReverseIter(dll) = SeqReverse(DIter(dll))

\* A chain whose two iterations differ, left by reverse().
C5_Witness ==
    /\ last.op = "reverse"
    /\ dll.size >= 3
    /\ DReverseIter(dll) # DIter(dll)

\* ---------------------------------------------------------------------- C6

\* C6: on any reachable chain of either class, the empty and the one-element
\* chain included, reverse() called twice restores the forward order, leaves
\* head and tail the node objects they were and leaves size unchanged; and
\* after two consecutive reverse() calls of the harness the chains are as
\* they were before the two calls.
C6_ReverseInvolution ==
    /\ LET s2 == SReverse(SReverse(sll).c).c
       IN  /\ SIter(s2) = SIter(sll)
           /\ s2.head = sll.head
           /\ s2.tail = sll.tail
           /\ s2.size = sll.size
    /\ LET d2 == DReverse(DReverse(dll).c).c
       IN  /\ DIter(d2) = DIter(dll)
           /\ DReverseIter(d2) = DReverseIter(dll)
           /\ d2.head = dll.head
           /\ d2.tail = dll.tail
           /\ d2.size = dll.size
    /\ rev.run = 2 =>
          /\ SIter(sll) = SIter(rev.s)
          /\ sll.size = rev.s.size
          /\ DIter(dll) = DIter(rev.d)
          /\ dll.size = rev.d.size

\* Two consecutive reverse() calls made on chains that read differently
\* backwards.
C6_Witness ==
    /\ rev.run = 2
    /\ sll.size >= 3
    /\ SIter(sll) # SeqReverse(SIter(sll))
    /\ DIter(dll) # SeqReverse(DIter(dll))

\* ---------------------------------------------------------------------- C7

\* A call that raised IndexError and left the chain c as it was: the same
\* head, tail and size and the same fields in every node.
RaisedUntouched(r, c) == r.raised /\ r.ret = None /\ r.c = c

\* C7: on any reachable chain of either class, get(i) and delete_at(i) with
\* i < 0 or i >= size and insert_at(i, x) with i < 0 or i > size raise
\* IndexError (no index is clamped, no negative index wraps around) and leave
\* size, head, tail and every link of every node as they were; and a call of
\* the harness that raised left both chains with the reference array's
\* content.
C7_BoundsEnforcement ==
    /\ \A i \in Indices :
          /\ i < 0 \/ i >= sll.size =>
                /\ RaisedUntouched(SGet(sll, i), sll)
                /\ RaisedUntouched(SDeleteAt(sll, i), sll)
          /\ i < 0 \/ i >= dll.size =>
                /\ RaisedUntouched(DGet(dll, i), dll)
                /\ RaisedUntouched(DDeleteAt(dll, i), dll)
          /\ i < 0 \/ i > sll.size =>
                \A x \in Values : RaisedUntouched(SInsertAt(sll, i, x), sll)
          /\ i < 0 \/ i > dll.size =>
                \A x \in Values : RaisedUntouched(DInsertAt(dll, i, x), dll)
    /\ last.op \in {"get", "delete_at", "insert_at"} =>
          /\ last.s.raised <=> last.r.raised
          /\ last.d.raised <=> last.r.raised

\* An insert_at that both chains refused, made on chains of two nodes or more.
C7_Witness ==
    /\ last.op = "insert_at"
    /\ last.s.raised
    /\ last.d.raised
    /\ sll.size >= 2
    /\ dll.size >= 2

\* ---------------------------------------------------------------------- C8

\* C8: on a chain of either class with size 0, delete_first() and
\* delete_last() raise IndexError, return nothing and leave the chain as a
\* fresh one is (head None, tail None, size 0), so that append and prepend
\* then do what they do on a fresh chain; and a delete_first or delete_last of
\* the harness that raised left both chains empty.
C8_EmptyCollection ==
    /\ sll.size = 0 =>
          /\ RaisedUntouched(SDeleteFirst(sll), SEmpty)
          /\ RaisedUntouched(SDeleteLast(sll), SEmpty)
          /\ \A v \in Values :
                /\ SAppend(SDeleteFirst(sll).c, v) = SAppend(SEmpty, v)
                /\ SPrepend(SDeleteFirst(sll).c, v) = SPrepend(SEmpty, v)
                /\ SAppend(SDeleteLast(sll).c, v) = SAppend(SEmpty, v)
                /\ SPrepend(SDeleteLast(sll).c, v) = SPrepend(SEmpty, v)
    /\ dll.size = 0 =>
          /\ RaisedUntouched(DDeleteFirst(dll), DEmpty)
          /\ RaisedUntouched(DDeleteLast(dll), DEmpty)
          /\ \A v \in Values :
                /\ DAppend(DDeleteFirst(dll).c, v) = DAppend(DEmpty, v)
                /\ DPrepend(DDeleteFirst(dll).c, v) = DPrepend(DEmpty, v)
                /\ DAppend(DDeleteLast(dll).c, v) = DAppend(DEmpty, v)
                /\ DPrepend(DDeleteLast(dll).c, v) = DPrepend(DEmpty, v)
    /\ last.op \in {"delete_first", "delete_last"} =>
          /\ last.s.raised => sll = SEmpty /\ last.s.ret = None
          /\ last.d.raised => dll = DEmpty /\ last.d.ret = None
          /\ last.s.raised <=> last.r.raised
          /\ last.d.raised <=> last.r.raised

\* A delete_last that both chains refused.
C8_Witness ==
    /\ last.op = "delete_last"
    /\ last.s.raised
    /\ last.d.raised
    /\ sll.size = 0
    /\ dll.size = 0

\* ---------------------------------------------------------------------- C9

\* The two macro-states of a chain of either class.
IsEmptyState(c) == c.head = None /\ c.tail = None /\ c.size = 0

IsPopulated(c) == c.head # None /\ c.tail # None /\ c.size >= 1

ExactlyOneState(c) == IsEmptyState(c) # IsPopulated(c)

\* The calls that may change a chain.
Mutators == {"append", "prepend", "insert_at", "delete_first", "delete_last",
             "delete_at", "reverse"}

\* C9 as stated: a chain starts Empty, is always in exactly one of Empty and
\* Populated, and every operation is a transition between the two or a
\* self-loop within Populated, so that no operation leaves an Empty chain
\* Empty.  The operations are read here as the mutators that do not raise,
\* the reading under which the statement says least.
C9_Original ==
    /\ IsEmptyState(sll) /\ IsEmptyState(dll)
    /\ [](ExactlyOneState(sll) /\ ExactlyOneState(dll))
    /\ [][/\ last'.op \in Mutators /\ ~last'.s.raised =>
                ~(IsEmptyState(sll) /\ IsEmptyState(sll'))
          /\ last'.op \in Mutators /\ ~last'.d.raised =>
                ~(IsEmptyState(dll) /\ IsEmptyState(dll'))]_vars

\* C9, amended: a chain starts Empty, is always in exactly one of Empty and
\* Populated, and every call is a transition between the two or a self-loop
\* within one of them; the calls that leave an Empty chain Empty are reverse,
\* get, search and the calls that raise.
C9_StateMachine ==
    /\ IsEmptyState(sll) /\ IsEmptyState(dll)
    /\ [](ExactlyOneState(sll) /\ ExactlyOneState(dll))
    /\ [][/\ IsEmptyState(sll) /\ IsEmptyState(sll') =>
                last'.op \in {"reverse", "get", "search"} \/ last'.s.raised
          /\ IsEmptyState(dll) /\ IsEmptyState(dll') =>
                last'.op \in {"reverse", "get", "search"} \/ last'.d.raised]_vars

\* Chains that a successful delete_first took from Populated to Empty.
C9_Witness ==
    /\ last.op = "delete_first"
    /\ ~last.s.raised
    /\ ~last.d.raised
    /\ IsEmptyState(sll)
    /\ IsEmptyState(dll)

\* --------------------------------------------------------------------- C10

\* C10: on a chain of either class with forward sequence [v0..vk],
\* delete_last() returns vk and leaves [v0..v(k-1)]; for k >= 1 the new tail
\* is the node that preceded the old tail and its next is None, for k = 0
\* head and tail become None.  The doubly variant moves no reference along
\* next and moves tail once along prev; the singly variant has no prev and
\* moves a reference from head along next, k - 1 times, to the node before
\* tail.
C10_DeleteLast ==
    /\ sll.size >= 1 =>
          LET k == Len(SNodes) - 1
              r == SDeleteLast(sll)
          IN  /\ ~r.raised
              /\ r.ret = SIter(sll)[k + 1]
              /\ SIter(r.c) = Front(SIter(sll))
              /\ r.c.size = k
              /\ k >= 1 =>
                    /\ r.c.tail = SNodes[k]
                    /\ r.c.node[r.c.tail].next = None
                    /\ r.c.head = sll.head
                    /\ r.nexts = k - 1
              /\ k = 0 => r.c.head = None /\ r.c.tail = None /\ r.nexts = 0
              /\ r.prevs = 0
    /\ dll.size >= 1 =>
          LET k == Len(DNodes) - 1
              r == DDeleteLast(dll)
          IN  /\ ~r.raised
              /\ r.ret = DIter(dll)[k + 1]
              /\ DIter(r.c) = Front(DIter(dll))
              /\ r.c.size = k
              /\ k >= 1 =>
                    /\ r.c.tail = DNodes[k]
                    /\ r.c.tail = dll.node[dll.tail].prev
                    /\ r.c.node[r.c.tail].next = None
                    /\ r.c.head = dll.head
                    /\ r.prevs = 1
              /\ k = 0 => r.c.head = None /\ r.c.tail = None /\ r.prevs = 0
              /\ r.nexts = 0
    /\ last.op = "delete_last" /\ ~last.r.raised =>
          /\ last.s = last.r
          /\ last.d = last.r
          /\ SIter(sll) = ref
          /\ DIter(dll) = ref

\* A delete_last that left three nodes or more in both chains.
C10_Witness ==
    /\ last.op = "delete_last"
    /\ ~last.s.raised
    /\ ~last.d.raised
    /\ sll.size >= 3
    /\ dll.size >= 3
    /\ ref[1] # ref[Len(ref)]

\* --------------------------------------------------------------------- C11

\* C11: on every reachable DoublyLinkedList and for every index with
\* 0 <= index < size, get(index) returns the value at position index of the
\* forward iteration, whether it walks from head (index < size // 2) or from
\* tail; and a get of the harness that the array accepts returned the
\* array's element.
C11_DoublyGet ==
    /\ \A i \in 0..(dll.size - 1) :
          /\ ~DGet(dll, i).raised
          /\ DGet(dll, i).ret = DIter(dll)[i + 1]
    /\ last.op = "get" /\ ~last.r.raised => last.d = last.r

\* A get that returned a value from a chain of four nodes or more which
\* holds both values, so that some index is served from head after a move
\* along next and some index from tail after a move along prev.
C11_Witness ==
    /\ last.op = "get"
    /\ ~last.d.raised
    /\ dll.size >= 4
    /\ \E i, j \in 1..Len(ref) : ref[i] # ref[j]
    /\ \E i \in 0..(dll.size - 1) : DGet(dll, i).nexts >= 1
    /\ \E i \in 0..(dll.size - 1) : DGet(dll, i).prevs >= 1

\* --------------------------------------------------------------------- C12

\* The smallest zero-based index at which the sequence a holds v, -1 when it
\* holds v nowhere.
FirstIndex(a, v) ==
    IF \E k \in 1..Len(a) : a[k] = v
    THEN (CHOOSE k \in 1..Len(a) :
             a[k] = v /\ \A j \in 1..(k - 1) : a[j] # v) - 1
    ELSE 0 - 1

\* C12: on every reachable chain of either class, search(v) returns the
\* smallest zero-based index at which the forward iteration holds v, and -1
\* exactly when it holds v nowhere (the empty chain included); it never
\* raises.  MaxVal + 1 is a value no chain holds.
C12_Search ==
    /\ \A v \in Values \cup {MaxVal + 1} :
          /\ ~SSearch(sll, v).raised
          /\ SSearch(sll, v).ret = FirstIndex(SIter(sll), v)
          /\ SSearch(sll, v).ret = 0 - 1 <=> v \notin Range(SIter(sll))
          /\ ~DSearch(dll, v).raised
          /\ DSearch(dll, v).ret = FirstIndex(DIter(dll), v)
          /\ DSearch(dll, v).ret = 0 - 1 <=> v \notin Range(DIter(dll))
    /\ last.op = "search" =>
          /\ ~last.s.raised
          /\ ~last.d.raised
          /\ last.s.ret \in (0 - 1)..(Len(ref) - 1)
          /\ last.s.ret >= 0 => SSearch(sll, ref[last.s.ret + 1]).ret = last.s.ret
          /\ last.d.ret >= 0 => DSearch(dll, ref[last.d.ret + 1]).ret = last.d.ret

\* A search that found, at index 1, a value the chain holds twice.
C12_Witness ==
    /\ last.op = "search"
    /\ last.s.ret = 1
    /\ last.d.ret = 1
    /\ Len(ref) >= 3
    /\ ref[2] = ref[3]

\* --------------------------------------------------------------------- C13

\* C13: on every reachable chain of either class holding s, and for every
\* index with 0 <= index <= size and every value x, insert_at(index, x)
\* does not raise, leaves s[0..index) + [x] + s[index..size), makes
\* get(index) return x and makes size one more; insert_at(0, x) leaves the
\* very chain prepend(x) leaves and insert_at(size, x) the very chain
\* append(x) leaves, head and tail included.  On the doubly chain the
\* indexes cover the walk from head and the walk from tail.
C13_InsertAt ==
    \A i \in 0..Len(ref), x \in Values :
       /\ sll.size = Len(ref) /\ dll.size = Len(ref)
       /\ ~SInsertAt(sll, i, x).raised
       /\ SIter(SInsertAt(sll, i, x).c) = SeqInsert(SIter(sll), i, x)
       /\ SGet(SInsertAt(sll, i, x).c, i).ret = x
       /\ ~SGet(SInsertAt(sll, i, x).c, i).raised
       /\ SLen(SInsertAt(sll, i, x).c) = sll.size + 1
       /\ i = 0 => SInsertAt(sll, i, x).c = SPrepend(sll, x).c
       /\ i = sll.size => SInsertAt(sll, i, x).c = SAppend(sll, x).c
       /\ ~DInsertAt(dll, i, x).raised
       /\ DIter(DInsertAt(dll, i, x).c) = SeqInsert(DIter(dll), i, x)
       /\ DReverseIter(DInsertAt(dll, i, x).c)
             = SeqReverse(SeqInsert(DIter(dll), i, x))
       /\ DGet(DInsertAt(dll, i, x).c, i).ret = x
       /\ ~DGet(DInsertAt(dll, i, x).c, i).raised
       /\ DLen(DInsertAt(dll, i, x).c) = dll.size + 1
       /\ i = 0 => DInsertAt(dll, i, x).c = DPrepend(dll, x).c
       /\ i = dll.size => DInsertAt(dll, i, x).c = DAppend(dll, x).c

\* An insert_at went through and left a chain of four nodes or more, on
\* which an interior insert_at is served from head for one index and from
\* tail for another.
C13_Witness ==
    /\ last.op = "insert_at"
    /\ ~last.s.raised /\ ~last.d.raised
    /\ dll.size >= 4
    /\ \E i \in 1..(dll.size - 1) : DInsertAt(dll, i, 1).nexts >= 1
    /\ \E i \in 1..(dll.size - 1) : DInsertAt(dll, i, 1).prevs >= 1

\* --------------------------------------------------------------------- C14

\* C14: on every reachable chain of either class holding s, and for every
\* index with 0 <= index < size, delete_at(index) returns the value
\* get(index) returned before and leaves s[0..index) + s[index+1..size);
\* with index = size - 1 and size >= 2 the tail becomes the node that was
\* before the last one and its next is none; with index = 0 the head
\* becomes the former second node, or the chain becomes empty when size
\* was 1.
C14_DeleteAt ==
    \A i \in 0..(Len(ref) - 1) :
       /\ sll.size = Len(ref) /\ dll.size = Len(ref)
       /\ ~SDeleteAt(sll, i).raised
       /\ SDeleteAt(sll, i).ret = SGet(sll, i).ret
       /\ SIter(SDeleteAt(sll, i).c) = SeqRemove(SIter(sll), i)
       /\ SDeleteAt(sll, i).c.size = sll.size - 1
       /\ (i = sll.size - 1 /\ sll.size >= 2) =>
             /\ SDeleteAt(sll, i).c.tail = SNodes[sll.size - 1]
             /\ SDeleteAt(sll, i).c.node[SDeleteAt(sll, i).c.tail].next = None
       /\ (i = 0 /\ sll.size >= 2) =>
             SDeleteAt(sll, i).c.head = SNodes[2]
       /\ (i = 0 /\ sll.size = 1) =>
             /\ SDeleteAt(sll, i).c.head = None
             /\ SDeleteAt(sll, i).c.tail = None
             /\ SDeleteAt(sll, i).c.size = 0
       /\ ~DDeleteAt(dll, i).raised
       /\ DDeleteAt(dll, i).ret = DGet(dll, i).ret
       /\ DIter(DDeleteAt(dll, i).c) = SeqRemove(DIter(dll), i)
       /\ DDeleteAt(dll, i).c.size = dll.size - 1
       /\ (i = dll.size - 1 /\ dll.size >= 2) =>
             /\ DDeleteAt(dll, i).c.tail = DNodes[dll.size - 1]
             /\ DDeleteAt(dll, i).c.node[DDeleteAt(dll, i).c.tail].next = None
       /\ (i = 0 /\ dll.size >= 2) =>
             DDeleteAt(dll, i).c.head = DNodes[2]
       /\ (i = 0 /\ dll.size = 1) =>
             /\ DDeleteAt(dll, i).c.head = None
             /\ DDeleteAt(dll, i).c.tail = None
             /\ DDeleteAt(dll, i).c.size = 0

\* A delete_at returned a value and left a chain of three nodes or more
\* with two different values, on which delete_at covers the first, an
\* interior and the last index.
C14_Witness ==
    /\ last.op = "delete_at"
    /\ ~last.s.raised /\ ~last.d.raised
    /\ last.s.ret \in Values
    /\ Len(ref) >= 3
    /\ \E i, j \in 1..Len(ref) : ref[i] # ref[j]

\* --------------------------------------------------------------------- C15

\* C15: on every reachable chain of either class, reverse leaves the
\* reversed forward sequence, the former tail node as head and the former
\* head node as tail, the same nodes with the same values and the same
\* size; on a chain of no or one element it changes nothing.
C15_Reverse ==
    /\ SIter(SReverse(sll).c) = SeqReverse(SIter(sll))
    /\ SReverse(sll).c.head = sll.tail
    /\ SReverse(sll).c.tail = sll.head
    /\ SLive(SReverse(sll).c) = SLive(sll)
    /\ \A n \in NodeIds : SReverse(sll).c.node[n].data = sll.node[n].data
    /\ SReverse(sll).c.size = sll.size
    /\ sll.size <= 1 => SReverse(sll).c = sll
    /\ ~SReverse(sll).raised
    /\ DIter(DReverse(dll).c) = SeqReverse(DIter(dll))
    /\ DReverseIter(DReverse(dll).c) = DIter(dll)
    /\ DReverse(dll).c.head = dll.tail
    /\ DReverse(dll).c.tail = dll.head
    /\ DLive(DReverse(dll).c) = DLive(dll)
    /\ \A n \in NodeIds : DReverse(dll).c.node[n].data = dll.node[n].data
    /\ DReverse(dll).c.size = dll.size
    /\ dll.size <= 1 => DReverse(dll).c = dll
    /\ ~DReverse(dll).raised
    /\ last.op = "reverse" => SIter(sll) = ref /\ DIter(dll) = ref

\* A reverse has run on a chain of three elements or more that does not
\* read the same in both directions.
C15_Witness ==
    /\ last.op = "reverse"
    /\ Len(ref) >= 3
    /\ SeqReverse(ref) # ref
    /\ SIter(sll) = ref

\* --------------------------------------------------------------------- C17

\* The smaller of two numbers.
Min(a, b) == IF a <= b THEN a ELSE b

\* The links followed by a call, next and prev together.
Links(r) == r.nexts + r.prevs

\* C17: on every reachable DoublyLinkedList, get at every valid index and
\* insert_at and delete_at at every interior index follow exactly
\* min(index, size - 1 - index) next or prev links to reach the node at
\* position index, along next only when walking from head and along prev
\* only when walking from tail, which is never more than the walk from the
\* other end would follow.
C17_NearestEnd ==
    /\ \A i \in 0..(dll.size - 1) :
          /\ Links(DGet(dll, i)) = Min(i, dll.size - 1 - i)
          /\ DGet(dll, i).nexts = 0 \/ DGet(dll, i).prevs = 0
          /\ DGet(dll, i).nexts > 0 => DGet(dll, i).nexts <= dll.size - 1 - i
          /\ DGet(dll, i).prevs > 0 => DGet(dll, i).prevs <= i
    /\ \A i \in 1..(dll.size - 1), x \in Values :
          /\ Links(DInsertAt(dll, i, x)) = Min(i, dll.size - 1 - i)
          /\ DInsertAt(dll, i, x).nexts = 0 \/ DInsertAt(dll, i, x).prevs = 0
    /\ \A i \in 1..(dll.size - 2) :
          /\ Links(DDeleteAt(dll, i)) = Min(i, dll.size - 1 - i)
          /\ DDeleteAt(dll, i).nexts = 0 \/ DDeleteAt(dll, i).prevs = 0

\* A chain of five nodes, on which get, an interior insert_at and an
\* interior delete_at each follow a next link for one index and a prev
\* link for another.
C17_Witness ==
    /\ dll.size = 5
    /\ DGet(dll, 1).nexts = 1
    /\ DGet(dll, 3).prevs = 1
    /\ DInsertAt(dll, 1, 1).nexts = 1
    /\ DInsertAt(dll, 3, 1).prevs = 1
    /\ DDeleteAt(dll, 1).nexts = 1
    /\ DDeleteAt(dll, 2).prevs = 2

\* --------------------------------------------------------------------- C20

\* What a caller sees of a chain: len, is_empty and the forward iteration.
SView(c) == [len |-> SLen(c), empty |-> SIsEmpty(c), iter |-> SIter(c)]

DView(c) == [len |-> DLen(c), empty |-> DIsEmpty(c), iter |-> DIter(c)]

\* The two classes answer a call alike: the same return value or an error
\* in both, and afterwards the same len, is_empty and forward iteration.
Alike(rs, rd) == Outcome(rs) = Outcome(rd) /\ SView(rs.c) = DView(rd.c)

\* C20: a SinglyLinkedList and a DoublyLinkedList that received the same
\* calls with the same arguments, valid or not, have given the same
\* outcome at every call (the same return value, or an error in both),
\* show the same len, is_empty and forward iteration, and answer every
\* next call alike.
C20_Equivalence ==
    /\ last.s = last.d
    /\ SView(sll) = DView(dll)
    /\ \A v \in Values :
          /\ Alike(SAppend(sll, v), DAppend(dll, v))
          /\ Alike(SPrepend(sll, v), DPrepend(dll, v))
          /\ Alike(SSearch(sll, v), DSearch(dll, v))
          /\ \A i \in Indices :
                Alike(SInsertAt(sll, i, v), DInsertAt(dll, i, v))
    /\ \A i \in Indices :
          /\ Alike(SDeleteAt(sll, i), DDeleteAt(dll, i))
          /\ Alike(SGet(sll, i), DGet(dll, i))
    /\ Alike(SDeleteFirst(sll), DDeleteFirst(dll))
    /\ Alike(SDeleteLast(sll), DDeleteLast(dll))
    /\ Alike(SReverse(sll), DReverse(dll))

\* Both chains hold three elements or more after a call that raised in
\* both, and a search for the value 2 finds it past the head.
C20_Witness ==
    /\ last.s.raised /\ last.d.raised
    /\ sll.size >= 3 /\ dll.size >= 3
    /\ SSearch(sll, 2).ret >= 1
    /\ DSearch(dll, 2).ret >= 1

\* --------------------------------------------------------------------- C19

\* The links followed by each call one can make on the reachable
\* SinglyLinkedList, with every argument.
SCallLinks ==
    {Links(SAppend(sll, v)) : v \in Values}
    \cup {Links(SPrepend(sll, v)) : v \in Values}
    \cup {Links(SInsertAt(sll, i, v)) : i \in Indices, v \in Values}
    \cup {Links(SDeleteAt(sll, i)) : i \in Indices}
    \cup {Links(SGet(sll, i)) : i \in Indices}
    \cup {Links(SSearch(sll, v)) : v \in Values \cup {MaxVal + 1}}
    \cup {Links(SDeleteFirst(sll)), Links(SDeleteLast(sll)),
          Links(SReverse(sll)), Links(SStr(sll))}

DCallLinks ==
    {Links(DAppend(dll, v)) : v \in Values}
    \cup {Links(DPrepend(dll, v)) : v \in Values}
    \cup {Links(DInsertAt(dll, i, v)) : i \in Indices, v \in Values}
    \cup {Links(DDeleteAt(dll, i)) : i \in Indices}
    \cup {Links(DGet(dll, i)) : i \in Indices}
    \cup {Links(DSearch(dll, v)) : v \in Values \cup {MaxVal + 1}}
    \cup {Links(DDeleteFirst(dll)), Links(DDeleteLast(dll)),
          Links(DReverse(dll)), Links(DStr(dll)), Links(DStrReverse(dll))}

\* C19: from every reachable state every call on either chain ends after
\* following at most size node links (size before the call; a link is
\* followed by an assignment of the form ref = ref.next or ref = ref.prev),
\* and a whole iteration, forward or backward, of a chain that is not
\* changed meanwhile ends by itself after size links.  No while loop is
\* cut off: delete_last's search for the node before tail, search,
\* reverse, str and the iterations reach their exit.
C19_Termination ==
    /\ \A links \in SCallLinks : links <= sll.size
    /\ \A links \in DCallLinks : links <= dll.size
    /\ Drain("s_iter", sll, NewGen, << >>, 0, Fuel).out = "stop"
    /\ Drain("s_iter", sll, NewGen, << >>, 0, Fuel).links = sll.size
    /\ \A kind \in {"d_iter", "d_reverse_iter"} :
          /\ Drain(kind, dll, NewGen, << >>, 0, Fuel).out = "stop"
          /\ Drain(kind, dll, NewGen, << >>, 0, Fuel).links = dll.size
    /\ SIsEmpty(sll) \in BOOLEAN /\ SLen(sll) = sll.size
    /\ DIsEmpty(dll) \in BOOLEAN /\ DLen(dll) = dll.size

\* A chain of MaxSize elements without the value 2, on which search(2),
\* reverse and a whole iteration each follow as many links as the chain has
\* nodes and delete_last's search follows two fewer.
C19_Witness ==
    /\ sll.size = MaxSize /\ dll.size = MaxSize
    /\ SSearch(sll, 2).ret = 0 - 1
    /\ Links(SSearch(sll, 2)) = MaxSize
    /\ Links(DSearch(dll, 2)) = MaxSize
    /\ Links(SReverse(sll)) = MaxSize
    /\ Links(DReverse(dll)) = MaxSize
    /\ Links(SDeleteLast(sll)) = MaxSize - 2
    /\ Drain("s_iter", sll, NewGen, << >>, 0, Fuel).links = MaxSize

\* --------------------------------------------------------------------- C16

\* The chain a generator of the given kind walks, the nodes in the order
\* of its walk, and the values in that order.
ChainOf(kind) == IF kind = "s_iter" THEN sll ELSE dll

NodesOf(kind) ==
    IF kind = "s_iter" THEN SNodes
    ELSE IF kind = "d_iter" THEN DNodes
    ELSE DNodesBack

ValuesOf(kind) ==
    IF kind = "s_iter" THEN SIter(sll)
    ELSE IF kind = "d_iter" THEN DIter(dll)
    ELSE SeqReverse(DIter(dll))

\* C16: on a chain that no call has changed since a generator was made
\* (iter on either class, reverse_iter on the doubly one), the generator
\* has yielded a prefix of the chain's sequence in walk order and stands on
\* the node of the last value yielded; once finished it has yielded exactly
\* size values, the whole sequence; it will finish with the whole sequence
\* whatever the other generator does; and an iteration started anew walks
\* from head (from tail for reverse_iter) and yields the same whole
\* sequence, whatever iterations are in progress.
C16_Iteration ==
    /\ \A kind \in GenKinds :
          /\ Drain(kind, ChainOf(kind), NewGen, << >>, 0, Fuel).out = "stop"
          /\ Drain(kind, ChainOf(kind), NewGen, << >>, 0, Fuel).values
                = ValuesOf(kind)
          /\ Len(ValuesOf(kind)) = ChainOf(kind).size
          /\ GenNext(kind, ChainOf(kind), NewGen).g.current
                = IF kind = "d_reverse_iter" THEN dll.tail
                  ELSE ChainOf(kind).head
    /\ \A x \in GenNames :
          (gens[x].kind # "none" /\ gens[x].clean) =>
             /\ gens[x].g.state = "new" =>
                   gens[x].seen = << >> /\ gens[x].out = "none"
             /\ gens[x].g.state = "at" =>
                   /\ gens[x].out = "yield"
                   /\ Len(gens[x].seen) \in 1..ChainOf(gens[x].kind).size
                   /\ gens[x].seen = SubSeq(ValuesOf(gens[x].kind), 1,
                                            Len(gens[x].seen))
                   /\ gens[x].g.current
                         = NodesOf(gens[x].kind)[Len(gens[x].seen)]
             /\ gens[x].g.state = "done" =>
                   /\ gens[x].out = "stop"
                   /\ gens[x].seen = ValuesOf(gens[x].kind)
                   /\ Len(gens[x].seen) = ChainOf(gens[x].kind).size
             /\ Drain(gens[x].kind, ChainOf(gens[x].kind), gens[x].g,
                      << >>, 0, Fuel).out = "stop"
             /\ gens[x].seen
                   \o Drain(gens[x].kind, ChainOf(gens[x].kind), gens[x].g,
                            << >>, 0, Fuel).values
                   = ValuesOf(gens[x].kind)

\* Two generators of one kind on an unchanged chain of IterSize elements
\* with two different values: a has finished after yielding them all, b,
\* made before a finished or after, has yielded the first one only.
C16_Witness ==
    /\ gens.a.kind = gens.b.kind
    /\ gens.a.kind # "none"
    /\ gens.a.clean /\ gens.b.clean
    /\ gens.a.g.state = "done"
    /\ Len(gens.a.seen) = IterSize
    /\ \E i, j \in 1..Len(gens.a.seen) : gens.a.seen[i] # gens.a.seen[j]
    /\ gens.b.g.state = "at"
    /\ Len(gens.b.seen) = 1

\* --------------------------------------------------------------------- C18

\* C18: with calls that change the chain made between the next() calls of
\* generators in progress, forward or backward, every next() made so far
\* has yielded a value or ended, the one to come does so too, a suspended
\* generator stands on a node that still holds its value (also when the
\* chain no longer holds the node), and the chains keep their shape: the
\* walk from head meets size nodes and ends at tail, the doubly chain's
\* prev links mirror its next links, and both classes show the same
\* sequence.
C18_MutationDuringIteration ==
    /\ \A x \in GenNames :
          gens[x].kind # "none" =>
             /\ gens[x].out \in {"none", "yield", "stop"}
             /\ gens[x].g.state = "at" =>
                   /\ gens[x].g.current \in NodeIds
                   /\ ChainOf(gens[x].kind).node[gens[x].g.current].data
                         \in Values
             /\ GenNext(gens[x].kind, ChainOf(gens[x].kind), gens[x].g).out
                   \in {"yield", "stop"}
             /\ GenNext(gens[x].kind, ChainOf(gens[x].kind), gens[x].g).out
                   = "yield" =>
                   GenNext(gens[x].kind, ChainOf(gens[x].kind),
                           gens[x].g).value \in Values
    /\ \A kind \in GenKinds :
          GenNext(kind, ChainOf(kind), NewGen).out \in {"yield", "stop"}
    /\ C1_SinglyShape
    /\ C2_DoublyShape
    /\ SView(sll) = DView(dll)

\* A forward generator of the singly chain and a backward generator of the
\* doubly chain, each of which, after calls changed its chain, made a
\* next() from a node the chain had dropped and got a value.
C18_Witness ==
    /\ gens.a.kind = "s_iter"
    /\ ~gens.a.clean /\ gens.a.off /\ gens.a.out = "yield"
    /\ gens.b.kind = "d_reverse_iter"
    /\ ~gens.b.clean /\ gens.b.off /\ gens.b.out = "yield"

\* --------------------------------------------------------------------- C21

\* The names of the calls that only read.
Accessors ==
    {"is_empty", "len", "get", "search", "str", "str_reverse", "iter",
     "reverse_iter"}

\* The chains the accessors of the singly class leave, with every
\* argument, get with an index out of range included; and those of the
\* doubly class.
SRead ==
    {SGet(sll, i).c : i \in Indices}
    \cup {SSearch(sll, v).c : v \in Values \cup {MaxVal + 1}}
    \cup {SStr(sll).c, Iterated("s_iter", sll).c}

DRead ==
    {DGet(dll, i).c : i \in Indices}
    \cup {DSearch(dll, v).c : v \in Values \cup {MaxVal + 1}}
    \cup {DStr(dll).c, DStrReverse(dll).c, Iterated("d_iter", dll).c,
          Iterated("d_reverse_iter", dll).c}

\* Every accessor applied to the reachable chains leaves them as they are,
\* and a mutator called after accessors gives what it gives without them.
C21_ReadOnly ==
    /\ SRead = {sll}
    /\ DRead = {dll}
    /\ SIsEmpty(sll) = (sll.head = None) /\ SLen(sll) = sll.size
    /\ DIsEmpty(dll) = (dll.head = None) /\ DLen(dll) = dll.size
    /\ \A c \in SRead, i \in Indices, v \in Values :
          /\ SInsertAt(SGet(c, i).c, i, v) = SInsertAt(sll, i, v)
          /\ SDeleteAt(SSearch(c, v).c, i) = SDeleteAt(sll, i)
          /\ SReverse(SStr(c).c).c = SReverse(sll).c
          /\ SDeleteLast(Iterated("s_iter", c).c) = SDeleteLast(sll)
    /\ \A c \in DRead, i \in Indices, v \in Values :
          /\ DInsertAt(DGet(c, i).c, i, v) = DInsertAt(dll, i, v)
          /\ DDeleteAt(DSearch(c, v).c, i) = DDeleteAt(dll, i)
          /\ DReverse(DStrReverse(c).c).c = DReverse(dll).c
          /\ DDeleteLast(Iterated("d_reverse_iter", c).c) = DDeleteLast(dll)

\* C21: is_empty, len, get (whether it returns or raises), search, str,
\* str_reverse and a whole forward or backward iteration leave head, tail,
\* size and every node's data, next and prev of both chains as they were:
\* each step of the harness that is an accessor call leaves sll, dll and
\* the reference array unchanged, and in every reachable state every
\* accessor gives back the chain it was given, so that a mutator called
\* after any number of accessors gives what it would have given without
\* them.
C21_Accessors ==
    /\ []C21_ReadOnly
    /\ [][last'.op \in Accessors =>
             (sll' = sll /\ dll' = dll /\ ref' = ref
              /\ sNet' = sNet /\ dNet' = dNet)]_vars

\* A str_reverse call has rendered a chain of three elements backward.
C21_Witness ==
    /\ last.op = "str_reverse"
    /\ ~last.d.raised
    /\ dll.size = 3
    /\ last.d.ret = "2 <-> 1 <-> 1"
    /\ DStr(dll).ret = "1 <-> 1 <-> 2"
    /\ SStr(sll).ret = "1 -> 1 -> 2"

====
